---- MODULE Spec2Model ----
(***************************************************************************)
(* Model of the three Rita message activities                              *)
(*   send_complete_message.execute                                         *)
(*   send_data_source_status.execute                                       *)
(*   send_document_processing_status.execute                               *)
(* and of the broker calls each of them makes through send_to_rabbitmq.    *)
(*                                                                         *)
(* Python values are tagged records: None, str, bool, int, list, dict.     *)
(* A dict is a TLA+ function from key strings to values.                   *)
(***************************************************************************)
EXTENDS Integers, Sequences, FiniteSets, TLC

\* ------------------------------------------------------------------------
\* Bounds
\* ------------------------------------------------------------------------
MaxCalls == 2

\* ------------------------------------------------------------------------
\* Python values
\* ------------------------------------------------------------------------
None == [t |-> "none"]

Str(s) == [t |-> "str", s |-> s]

BoolV(b) == [t |-> "bool", b |-> b]

IntV(n) == [t |-> "int", n |-> n]

ListV(v) == [t |-> "list", v |-> v]

DictV(d) == [t |-> "dict", d |-> d]

EmptyMap == [k \in {} |-> None]

IsStr(v) == v.t = "str"

\* Python truth value testing: `if x`, `not x`, `x or y`
Truthy(v) ==
    CASE v.t = "none" -> FALSE
      [] v.t = "str"  -> v.s /= ""
      [] v.t = "bool" -> v.b
      [] v.t = "int"  -> v.n /= 0
      [] v.t = "list" -> v.v /= <<>>
      [] v.t = "dict" -> DOMAIN v.d /= {}

\* ------------------------------------------------------------------------
\* str methods
\* ------------------------------------------------------------------------
Whitespace == {" ", "\t", "\n", "\r"}

RECURSIVE LStrip(_)
LStrip(s) ==
    IF s = "" THEN ""
    ELSE IF SubSeq(s, 1, 1) \in Whitespace THEN LStrip(SubSeq(s, 2, Len(s)))
    ELSE s

RECURSIVE RStrip(_)
RStrip(s) ==
    IF s = "" THEN ""
    ELSE IF SubSeq(s, Len(s), Len(s)) \in Whitespace THEN RStrip(SubSeq(s, 1, Len(s) - 1))
    ELSE s

\* str.strip()
Strip(s) == RStrip(LStrip(s))

\* str.startswith(prefix)
StartsWith(s, prefix) ==
    /\ Len(s) >= Len(prefix)
    /\ SubSeq(s, 1, Len(prefix)) = prefix

UpperLetters == "ABCDEFGHIJKLMNOPQRSTUVWXYZ"

LowerLetters == "abcdefghijklmnopqrstuvwxyz"

LowerChar(c) ==
    IF \E i \in 1..26 : SubSeq(UpperLetters, i, i) = c
    THEN LET i == CHOOSE j \in 1..26 : SubSeq(UpperLetters, j, j) = c
         IN  SubSeq(LowerLetters, i, i)
    ELSE c

RECURSIVE Lower(_)
\* str.lower()
Lower(s) ==
    IF s = "" THEN ""
    ELSE LowerChar(SubSeq(s, 1, 1)) \o Lower(SubSeq(s, 2, Len(s)))

\* x.strip() if x else None  (str inputs and None)
StripOrNone(v) == IF Truthy(v) THEN Str(Strip(v.s)) ELSE None

\* x if x else None
OrNone(v) == IF Truthy(v) THEN v ELSE None

RECURSIVE RemoveAll(_, _)
\* str.replace(sub, '')
RemoveAll(s, sub) ==
    IF Len(s) < Len(sub) THEN s
    ELSE IF SubSeq(s, 1, Len(sub)) = sub THEN RemoveAll(SubSeq(s, Len(sub) + 1, Len(s)), sub)
    ELSE SubSeq(s, 1, 1) \o RemoveAll(SubSeq(s, 2, Len(s)), sub)

RECURSIVE LStripChars(_, _)
LStripChars(s, chars) ==
    IF s = "" THEN ""
    ELSE IF SubSeq(s, 1, 1) \in chars THEN LStripChars(SubSeq(s, 2, Len(s)), chars)
    ELSE s

RECURSIVE RStripChars(_, _)
RStripChars(s, chars) ==
    IF s = "" THEN ""
    ELSE IF SubSeq(s, Len(s), Len(s)) \in chars THEN RStripChars(SubSeq(s, 1, Len(s) - 1), chars)
    ELSE s

\* str.strip(chars)
StripChars(s, chars) == RStripChars(LStripChars(s, chars), chars)

\* ------------------------------------------------------------------------
\* int(x)
\* ------------------------------------------------------------------------
Digits == "0123456789"

IsDigit(c) == \E i \in 1..10 : SubSeq(Digits, i, i) = c

DigitVal(c) == (CHOOSE i \in 1..10 : SubSeq(Digits, i, i) = c) - 1

RECURSIVE DigitsVal(_, _)
DigitsVal(s, acc) ==
    IF s = "" THEN acc
    ELSE DigitsVal(SubSeq(s, 2, Len(s)), 10 * acc + DigitVal(SubSeq(s, 1, 1)))

AllDigits(s) == s /= "" /\ \A i \in 1..Len(s) : IsDigit(SubSeq(s, i, i))

\* a conversion that turns whatever it cannot read into 0
ParseIntLenient(v) ==
    CASE v.t = "int"  -> [ok |-> TRUE, n |-> v.n]
      [] v.t = "bool" -> [ok |-> TRUE, n |-> IF v.b THEN 1 ELSE 0]
      [] OTHER -> [ok |-> TRUE, n |-> 0]

\* int(v): [ok |-> TRUE, n |-> value], or ok = FALSE for ValueError/TypeError
ParseInt(v) ==
    CASE v.t = "int"  -> [ok |-> TRUE, n |-> v.n]
      [] v.t = "bool" -> [ok |-> TRUE, n |-> IF v.b THEN 1 ELSE 0]
      [] v.t = "str"  ->
            LET b    == Strip(v.s)
                neg  == b /= "" /\ SubSeq(b, 1, 1) = "-"
                sign == b /= "" /\ SubSeq(b, 1, 1) \in {"-", "+"}
                ds   == IF sign THEN SubSeq(b, 2, Len(b)) ELSE b
            IN  IF AllDigits(ds)
                THEN [ok |-> TRUE, n |-> IF neg THEN 0 - DigitsVal(ds, 0) ELSE DigitsVal(ds, 0)]
                ELSE [ok |-> FALSE, n |-> 0]
      [] OTHER -> [ok |-> FALSE, n |-> 0]

\* ------------------------------------------------------------------------
\* uuid.UUID(hex, version=4) and str(uuid_obj)
\* ------------------------------------------------------------------------
HexDigits == "0123456789abcdefABCDEF"

IsHex(c) == \E i \in 1..22 : SubSeq(HexDigits, i, i) = c

AllHex(s) == \A i \in 1..Len(s) : IsHex(SubSeq(s, i, i))

\* UUID.__init__: hex.replace('urn:', '').replace('uuid:', '').strip('{}').replace('-', '')
UUIDHex(s) ==
    RemoveAll(StripChars(RemoveAll(RemoveAll(s, "urn:"), "uuid:"), {"{", "}"}), "-")

\* the variant bits are forced to RFC 4122: nibble & 0x3 | 0x8
VariantNibble(c) ==
    CASE c \in {"0", "4", "8", "c"} -> "8"
      [] c \in {"1", "5", "9", "d"} -> "9"
      [] c \in {"2", "6", "a", "e"} -> "a"
      [] OTHER -> "b"

\* str(uuid.UUID(s, version=4)) for a 32 digit hex string
UUIDStr(hex) ==
    LET h == Lower(hex)
        f == SubSeq(h, 1, 12) \o "4" \o SubSeq(h, 14, 16)
             \o VariantNibble(SubSeq(h, 17, 17)) \o SubSeq(h, 18, 32)
    IN  SubSeq(f, 1, 8) \o "-" \o SubSeq(f, 9, 12) \o "-" \o SubSeq(f, 13, 16)
        \o "-" \o SubSeq(f, 17, 20) \o "-" \o SubSeq(f, 21, 32)

\* ------------------------------------------------------------------------
\* json.loads on the JSON texts the inputs use; any other text of the input
\* sets is malformed JSON (json.JSONDecodeError, ok = FALSE)
\* ------------------------------------------------------------------------
SourceDoc == DictV([url |-> Str("https://docs"), title |-> Str("Docs")])

SourceNoTitle == DictV([url |-> Str("https://docs")])

SourceNoUrl == DictV([title |-> Str("Docs")])

TaskSetup == DictV([title |-> Str("Setup"), items |-> ListV(<<Str("Install")>>)])

TaskOpen == DictV([title |-> Str("Setup"), items |-> ListV(<<>>), defaultOpen |-> BoolV(TRUE)])

TaskNoItems == DictV([title |-> Str("Setup")])

TaskNoTitle == DictV([items |-> ListV(<<>>)])

TaskItemsStr == DictV([title |-> Str("Setup"), items |-> Str("Install")])

TaskOpenStr == DictV([title |-> Str("Setup"), items |-> ListV(<<>>), defaultOpen |-> Str("yes")])

OptionsDoc == DictV([site |-> Str("main")])

JsonLoads(text) ==
    CASE text = "[]"   -> [ok |-> TRUE, val |-> ListV(<<>>)]
      [] text = "{}"   -> [ok |-> TRUE, val |-> DictV(EmptyMap)]
      [] text = "null" -> [ok |-> TRUE, val |-> None]
      [] text = "5"    -> [ok |-> TRUE, val |-> IntV(5)]
      [] text = "[5]"  -> [ok |-> TRUE, val |-> ListV(<<IntV(5)>>)]
      [] text = "\"x\"" -> [ok |-> TRUE, val |-> Str("x")]
      [] text = "[{\"url\": \"https://docs\", \"title\": \"Docs\"}]"
                       -> [ok |-> TRUE, val |-> ListV(<<SourceDoc>>)]
      [] text = "[{\"url\": \"https://docs\"}]"
                       -> [ok |-> TRUE, val |-> ListV(<<SourceNoTitle>>)]
      [] text = "[{\"title\": \"Setup\", \"items\": [\"Install\"]}]"
                       -> [ok |-> TRUE, val |-> ListV(<<TaskSetup>>)]
      [] text = "[{\"title\": \"Setup\"}]"
                       -> [ok |-> TRUE, val |-> ListV(<<TaskNoItems>>)]
      [] text = "{\"site\": \"main\"}"
                       -> [ok |-> TRUE, val |-> OptionsDoc]
      [] text = "[\"main\"]"
                       -> [ok |-> TRUE, val |-> ListV(<<Str("main")>>)]
      [] OTHER         -> [ok |-> FALSE, val |-> None]

\* json.dumps(obj): the JSON document denoting obj
JsonDumps(obj) == [t |-> "json", doc |-> obj]

\* ------------------------------------------------------------------------
\* send_complete_message.py
\* ------------------------------------------------------------------------
Valid == [ok |-> TRUE, err |-> ""]

Invalid(msg) == [ok |-> FALSE, err |-> msg]

\* the text of a json.JSONDecodeError
JsonErrorText == "Expecting value: line 1 column 1 (char 0)"

\* a validator that accepts every group id
validate_response_group_id_any(response_group_id) == Valid

validate_response_group_id(response_group_id) ==
    IF Truthy(response_group_id)
    THEN IF ~IsStr(response_group_id)
         THEN Invalid("response_group_id must be a valid UUID v4")
         ELSE LET hex == UUIDHex(response_group_id.s)
              IN  IF Len(hex) /= 32 \/ ~AllHex(hex)
                  THEN Invalid("response_group_id must be a valid UUID v4")
                  ELSE IF UUIDStr(hex) /= Lower(response_group_id.s)
                       THEN Invalid("response_group_id must be a valid UUID v4")
                       ELSE Valid
    ELSE Valid

\* a validator that forgets the scheme check
validate_rabbitmq_url_any_scheme(rabbitmq_url, queue_name) ==
    IF ~Truthy(rabbitmq_url) THEN Invalid("rabbitmq_url is required")
    ELSE IF ~Truthy(queue_name) THEN Invalid("queue_name is required")
    ELSE Valid

validate_rabbitmq_url(rabbitmq_url, queue_name) ==
    IF ~Truthy(rabbitmq_url) THEN Invalid("rabbitmq_url is required")
    ELSE IF ~Truthy(queue_name) THEN Invalid("queue_name is required")
    ELSE IF ~(StartsWith(rabbitmq_url.s, "amqp://") \/ StartsWith(rabbitmq_url.s, "amqps://"))
         THEN Invalid("rabbitmq_url must start with 'amqp://' or 'amqps://'")
    ELSE Valid

\* json.loads(x) if isinstance(x, str) else x
LoadsIfStr(v) == IF IsStr(v) THEN JsonLoads(v.s) ELSE [ok |-> TRUE, val |-> v]

\* an element check that forgets the title
SourceErrorNoTitle(source, idx) ==
    IF source.t /= "dict" THEN "sources[" \o ToString(idx) \o "] must be an object"
    ELSE IF "url" \notin DOMAIN source.d
         THEN "sources[" \o ToString(idx) \o "] missing required field 'url'"
    ELSE ""

SourceError(source, idx) ==
    IF source.t /= "dict" THEN "sources[" \o ToString(idx) \o "] must be an object"
    ELSE IF "url" \notin DOMAIN source.d
         THEN "sources[" \o ToString(idx) \o "] missing required field 'url'"
    ELSE IF "title" \notin DOMAIN source.d
         THEN "sources[" \o ToString(idx) \o "] missing required field 'title'"
    ELSE ""

\* an element check that forgets defaultOpen
TaskErrorAnyDefaultOpen(task, idx) ==
    IF task.t /= "dict" THEN "tasks[" \o ToString(idx) \o "] must be an object"
    ELSE IF "title" \notin DOMAIN task.d
         THEN "tasks[" \o ToString(idx) \o "] missing required field 'title'"
    ELSE IF "items" \notin DOMAIN task.d
         THEN "tasks[" \o ToString(idx) \o "] missing required field 'items'"
    ELSE IF task.d.items.t /= "list"
         THEN "tasks[" \o ToString(idx) \o "].items must be a list"
    ELSE ""

TaskError(task, idx) ==
    IF task.t /= "dict" THEN "tasks[" \o ToString(idx) \o "] must be an object"
    ELSE IF "title" \notin DOMAIN task.d
         THEN "tasks[" \o ToString(idx) \o "] missing required field 'title'"
    ELSE IF "items" \notin DOMAIN task.d
         THEN "tasks[" \o ToString(idx) \o "] missing required field 'items'"
    ELSE IF task.d.items.t /= "list"
         THEN "tasks[" \o ToString(idx) \o "].items must be a list"
    ELSE IF "defaultOpen" \in DOMAIN task.d /\ task.d.defaultOpen.t /= "bool"
         THEN "tasks[" \o ToString(idx) \o "].defaultOpen must be a boolean"
    ELSE ""

\* the sources block of validate_parameters (lines 88-102)
ValidateSources(sources) ==
    IF ~Truthy(sources) THEN Valid
    ELSE LET parsed == LoadsIfStr(sources)
         IN  IF ~parsed.ok THEN Invalid("sources JSON parsing error: " \o JsonErrorText)
             ELSE IF parsed.val.t /= "list" THEN Invalid("sources must be a list")
             ELSE LET l   == parsed.val.v
                      bad == {i \in 1..Len(l) : SourceError(l[i], i - 1) /= ""}
                  IN  IF bad = {} THEN Valid
                      ELSE LET i == CHOOSE j \in bad : \A k \in bad : j <= k
                           IN  Invalid(SourceError(l[i], i - 1))

\* the tasks block of validate_parameters (lines 105-123)
ValidateTasks(tasks) ==
    IF ~Truthy(tasks) THEN Valid
    ELSE LET parsed == LoadsIfStr(tasks)
         IN  IF ~parsed.ok THEN Invalid("tasks JSON parsing error: " \o JsonErrorText)
             ELSE IF parsed.val.t /= "list" THEN Invalid("tasks must be a list")
             ELSE LET l   == parsed.val.v
                      bad == {i \in 1..Len(l) : TaskError(l[i], i - 1) /= ""}
                  IN  IF bad = {} THEN Valid
                      ELSE LET i == CHOOSE j \in bad : \A k \in bad : j <= k
                           IN  Invalid(TaskError(l[i], i - 1))

\* a validator that forgets the message_id check
validate_parameters_no_message_id(tenant_id, message_id, conversation_id, sources, tasks) ==
    IF ~Truthy(tenant_id) THEN Invalid("tenant_id is required")
    ELSE IF ~Truthy(conversation_id) THEN Invalid("conversation_id is required")
    ELSE IF ~ValidateSources(sources).ok THEN ValidateSources(sources)
    ELSE ValidateTasks(tasks)

validate_parameters(tenant_id, message_id, conversation_id, sources, tasks) ==
    IF ~Truthy(tenant_id) THEN Invalid("tenant_id is required")
    ELSE IF ~Truthy(message_id) THEN Invalid("message_id is required")
    ELSE IF ~Truthy(conversation_id) THEN Invalid("conversation_id is required")
    ELSE IF ~ValidateSources(sources).ok THEN ValidateSources(sources)
    ELSE ValidateTasks(tasks)

\* an error result that also carries a message key
ErrorResultWithMessage(text) ==
    JsonDumps(DictV([status |-> Str("error"), error |-> Str(text), message |-> None]))

\* json.dumps({"status": "error", "error": text})
ErrorResult(text) == JsonDumps(DictV([status |-> Str("error"), error |-> Str(text)]))

ValidationFailed(msg) == ErrorResult("Validation failed: " \o msg)

\* an outcome of the part of execute that precedes send_to_rabbitmq:
\* either execute has returned `result`, or it goes on to send `message`
Return(result) == [returned |-> TRUE, result |-> result, message |-> None]

Send(message) == [returned |-> FALSE, result |-> None, message |-> message]

\* a conversion that compares without lower()
ConvertTurnCompleteCaseSensitive(turn_complete) ==
    IF turn_complete /= None /\ turn_complete /= Str("")
    THEN IF IsStr(turn_complete)
         THEN BoolV(turn_complete.s \in {"true", "1", "yes"})
         ELSE BoolV(Truthy(turn_complete))
    ELSE None

\* lines 176-182
ConvertTurnComplete(turn_complete) ==
    IF turn_complete /= None /\ turn_complete /= Str("")
    THEN IF IsStr(turn_complete)
         THEN BoolV(Lower(turn_complete.s) \in {"true", "1", "yes"})
         ELSE BoolV(Truthy(turn_complete))
    ELSE None

\* a metadata whose reasoning always carries a title key
CompleteMetadataAlwaysTitle(reasoning_content, reasoning_title, sources, tasks, turn_complete, citation_variant) ==
    (IF Truthy(reasoning_content)
     THEN [reasoning |->
             DictV([content |-> reasoning_content, state |-> Str("done"),
                    title |-> reasoning_title])]
     ELSE EmptyMap)
    @@ (IF Truthy(sources) THEN [sources |-> LoadsIfStr(sources).val] ELSE EmptyMap)
    @@ (IF Truthy(tasks) THEN [tasks |-> LoadsIfStr(tasks).val] ELSE EmptyMap)
    @@ (IF turn_complete /= None THEN [turn_complete |-> turn_complete] ELSE EmptyMap)
    @@ (IF citation_variant /= None THEN [citation_variant |-> citation_variant] ELSE EmptyMap)

\* lines 223-252
CompleteMetadata(reasoning_content, reasoning_title, sources, tasks, turn_complete, citation_variant) ==
    (IF Truthy(reasoning_content)
     THEN [reasoning |->
             DictV([content |-> reasoning_content, state |-> Str("done")]
                   @@ (IF Truthy(reasoning_title) THEN [title |-> reasoning_title] ELSE EmptyMap))]
     ELSE EmptyMap)
    @@ (IF Truthy(sources) THEN [sources |-> LoadsIfStr(sources).val] ELSE EmptyMap)
    @@ (IF Truthy(tasks) THEN [tasks |-> LoadsIfStr(tasks).val] ELSE EmptyMap)
    @@ (IF turn_complete /= None THEN [turn_complete |-> turn_complete] ELSE EmptyMap)
    @@ (IF citation_variant /= None THEN [citation_variant |-> citation_variant] ELSE EmptyMap)

\* a message that carries its metadata even when it is empty
CompleteMessageAlwaysMetadata(a, text_content, reasoning_content, reasoning_title, sources, tasks, response_group_id, turn_complete, citation_variant) ==
    LET metadata == CompleteMetadata(reasoning_content, reasoning_title, sources, tasks,
                                     turn_complete, citation_variant)
    IN  DictV([message_id |-> a.message_id,
               conversation_id |-> a.conversation_id,
               tenant_id |-> a.tenant_id,
               response |-> text_content,
               metadata |-> DictV(metadata)]
              @@ (IF Truthy(response_group_id)
                  THEN [response_group_id |-> response_group_id] ELSE EmptyMap))

\* lines 215-260
CompleteMessage(a, text_content, reasoning_content, reasoning_title, sources, tasks, response_group_id, turn_complete, citation_variant) ==
    LET metadata == CompleteMetadata(reasoning_content, reasoning_title, sources, tasks,
                                     turn_complete, citation_variant)
    IN  DictV([message_id |-> a.message_id,
               conversation_id |-> a.conversation_id,
               tenant_id |-> a.tenant_id,
               response |-> text_content]
              @@ (IF DOMAIN metadata /= {} THEN [metadata |-> DictV(metadata)] ELSE EmptyMap)
              @@ (IF Truthy(response_group_id)
                  THEN [response_group_id |-> response_group_id] ELSE EmptyMap))

\* lines 201-207
HasContent(text_content, reasoning_content, sources, tasks) ==
    \/ (Truthy(text_content) /\ Strip(text_content.s) /= "")
    \/ Truthy(reasoning_content)
    \/ Truthy(sources)
    \/ Truthy(tasks)

\* send_complete_message.execute up to the call of install_and_import
CompleteOutcome(a) ==
    LET text_content      == IF Truthy(a.text_content) THEN a.text_content ELSE Str("")
        reasoning_content == OrNone(a.reasoning_content)
        reasoning_title   == OrNone(a.reasoning_title)
        sources           == OrNone(a.sources)
        tasks             == OrNone(a.tasks)
        response_group_id == OrNone(a.response_group_id)
        turn_complete     == ConvertTurnComplete(a.turn_complete)
        citation_variant  == OrNone(a.citation_variant)
        v1 == validate_response_group_id(response_group_id)
        v2 == validate_rabbitmq_url(a.rabbitmq_url, a.queue_name)
        v3 == validate_parameters(a.tenant_id, a.message_id, a.conversation_id, sources, tasks)
    IN  IF ~v1.ok THEN Return(ValidationFailed(v1.err))
        ELSE IF ~v2.ok THEN Return(ValidationFailed(v2.err))
        ELSE IF ~v3.ok THEN Return(ValidationFailed(v3.err))
        ELSE IF ~HasContent(text_content, reasoning_content, sources, tasks)
             THEN Return(ValidationFailed("at least one of text_content, reasoning_content, sources, or tasks is required"))
        ELSE Send(CompleteMessage(a, text_content, reasoning_content, reasoning_title,
                                  sources, tasks, response_group_id, turn_complete,
                                  citation_variant))

\* a success result that reports the identifiers only
CompleteSuccessIdsOnly(a, message) ==
    JsonDumps(DictV([status |-> Str("success"), message_id |-> a.message_id,
                     message |-> DictV([message_id |-> a.message_id,
                                        conversation_id |-> a.conversation_id,
                                        tenant_id |-> a.tenant_id,
                                        response |-> Str("")])]))

\* json.dumps({"status": "success", "message_id": message_id, "message": message})
CompleteSuccess(a, message) ==
    JsonDumps(DictV([status |-> Str("success"), message_id |-> a.message_id, message |-> message]))

\* ------------------------------------------------------------------------
\* send_data_source_status.py
\* ------------------------------------------------------------------------
SyncStatuses == {"sync_started", "sync_completed", "sync_failed"}

VerificationStatuses == {"success", "failed"}

validate_sync_message(connection_id, tenant_id, status, error_message, documents_processed) ==
    IF ~Truthy(connection_id) THEN Invalid("connection_id is required")
    ELSE IF ~Truthy(tenant_id) THEN Invalid("tenant_id is required")
    ELSE IF ~Truthy(status) THEN Invalid("status is required")
    ELSE IF status.s \notin SyncStatuses
         THEN Invalid("status must be one of: sync_started, sync_completed, sync_failed")
    ELSE IF status.s = "sync_completed" /\ documents_processed /= None
         THEN IF ~ParseInt(documents_processed).ok
              THEN Invalid("documents_processed must be a valid integer")
              ELSE IF ParseInt(documents_processed).n < 0
                   THEN Invalid("documents_processed must be >= 0")
                   ELSE Valid
    ELSE Valid

\* a validator that forgets the status set
validate_verification_message_any_status(connection_id, tenant_id, status, verification_options, verification_error) ==
    IF ~Truthy(connection_id) THEN Invalid("connection_id is required")
    ELSE IF ~Truthy(tenant_id) THEN Invalid("tenant_id is required")
    ELSE IF ~Truthy(status) THEN Invalid("status is required")
    ELSE Valid

\* a validator that forgets the options
validate_verification_message_any_options(connection_id, tenant_id, status, verification_options, verification_error) ==
    IF ~Truthy(connection_id) THEN Invalid("connection_id is required")
    ELSE IF ~Truthy(tenant_id) THEN Invalid("tenant_id is required")
    ELSE IF ~Truthy(status) THEN Invalid("status is required")
    ELSE IF status.s \notin VerificationStatuses
         THEN Invalid("status must be one of: success, failed")
    ELSE Valid

validate_verification_message(connection_id, tenant_id, status, verification_options, verification_error) ==
    IF ~Truthy(connection_id) THEN Invalid("connection_id is required")
    ELSE IF ~Truthy(tenant_id) THEN Invalid("tenant_id is required")
    ELSE IF ~Truthy(status) THEN Invalid("status is required")
    ELSE IF status.s \notin VerificationStatuses
         THEN Invalid("status must be one of: success, failed")
    ELSE IF Truthy(verification_options)
         THEN LET parsed == LoadsIfStr(verification_options)
              IN  IF ~parsed.ok
                  THEN Invalid("verification_options JSON parsing error: " \o JsonErrorText)
                  ELSE IF parsed.val.t \notin {"dict", "list"}
                       THEN Invalid("verification_options must be a JSON object or array")
                       ELSE Valid
    ELSE Valid

\* a sync message that drops a zero count
SyncMessageDropsZero(connection_id, tenant_id, status, error_message, documents_processed, now) ==
    DictV([type |-> Str("sync"),
           connection_id |-> connection_id,
           tenant_id |-> tenant_id,
           status |-> status,
           timestamp |-> Str(now)]
          @@ (IF Truthy(error_message) THEN [error_message |-> error_message] ELSE EmptyMap)
          @@ (IF Truthy(documents_processed)
              THEN [documents_processed |-> documents_processed] ELSE EmptyMap))

\* lines 169-181
SyncMessage(connection_id, tenant_id, status, error_message, documents_processed, now) ==
    DictV([type |-> Str("sync"),
           connection_id |-> connection_id,
           tenant_id |-> tenant_id,
           status |-> status,
           timestamp |-> Str(now)]
          @@ (IF Truthy(error_message) THEN [error_message |-> error_message] ELSE EmptyMap)
          @@ (IF documents_processed /= None
              THEN [documents_processed |-> documents_processed] ELSE EmptyMap))

\* a verification message that leaves out the keys of absent inputs
VerificationMessageOptionalKeys(connection_id, tenant_id, status, verification_options, verification_error) ==
    DictV([type |-> Str("verification"),
           connection_id |-> connection_id,
           tenant_id |-> tenant_id,
           status |-> status]
          @@ (IF Truthy(verification_options)
              THEN [options |-> LoadsIfStr(verification_options).val] ELSE EmptyMap)
          @@ (IF Truthy(verification_error) THEN [error |-> verification_error] ELSE EmptyMap))

\* a verification message that always reports success
VerificationMessageAlwaysSuccess(connection_id, tenant_id, status, verification_options, verification_error) ==
    DictV([type |-> Str("verification"),
           connection_id |-> connection_id,
           tenant_id |-> tenant_id,
           status |-> Str("success"),
           options |-> IF Truthy(verification_options)
                       THEN LoadsIfStr(verification_options).val ELSE None,
           error |-> IF Truthy(verification_error) THEN verification_error ELSE None])

\* lines 198-216
VerificationMessage(connection_id, tenant_id, status, verification_options, verification_error) ==
    DictV([type |-> Str("verification"),
           connection_id |-> connection_id,
           tenant_id |-> tenant_id,
           status |-> status,
           options |-> IF Truthy(verification_options)
                       THEN LoadsIfStr(verification_options).val ELSE None,
           error |-> IF Truthy(verification_error) THEN verification_error ELSE None])

\* send_data_source_status.execute up to the call of install_and_import
DataSourceOutcome(a, now) ==
    LET message_type         == StripOrNone(a.message_type)
        connection_id        == StripOrNone(a.connection_id)
        tenant_id            == StripOrNone(a.tenant_id)
        status               == StripOrNone(a.status)
        error_message        == StripOrNone(a.error_message)
        verification_error   == StripOrNone(a.verification_error)
        verification_options == OrNone(a.verification_options)
        supplied             == a.documents_processed /= None /\ a.documents_processed /= Str("")
        converted            == ParseInt(a.documents_processed)
        documents_processed  == IF supplied THEN IntV(converted.n) ELSE None
        v1 == validate_rabbitmq_url(a.rabbitmq_url, a.queue_name)
    IN  IF supplied /\ ~converted.ok
        THEN Return(ErrorResult("documents_processed must be a valid integer"))
        ELSE IF ~v1.ok THEN Return(ValidationFailed(v1.err))
        ELSE IF ~Truthy(message_type) \/ message_type.s \notin {"sync", "verification"}
             THEN Return(ErrorResult("message_type must be 'sync' or 'verification'"))
        ELSE IF message_type.s = "sync"
             THEN LET v2 == validate_sync_message(connection_id, tenant_id, status,
                                                  error_message, documents_processed)
                  IN  IF ~v2.ok THEN Return(ValidationFailed(v2.err))
                      ELSE Send(SyncMessage(connection_id, tenant_id, status, error_message,
                                            documents_processed, now))
        ELSE LET auto == IF ~Truthy(status) \/ status = Str("")
                         THEN IF Truthy(verification_error) THEN Str("failed") ELSE Str("success")
                         ELSE status
                 v3   == validate_verification_message(connection_id, tenant_id, auto,
                                                       verification_options, verification_error)
             IN  IF ~v3.ok THEN Return(ValidationFailed(v3.err))
                 ELSE Send(VerificationMessage(connection_id, tenant_id, auto,
                                               verification_options, verification_error))

\* json.dumps({"status": "success", "message_type": ..., "connection_id": ..., "message": message})
DataSourceSuccess(a, message) ==
    JsonDumps(DictV([status |-> Str("success"),
                     message_type |-> StripOrNone(a.message_type),
                     connection_id |-> StripOrNone(a.connection_id),
                     message |-> message]))

\* ------------------------------------------------------------------------
\* send_document_processing_status.py
\* ------------------------------------------------------------------------
DocumentStatuses == {"processing_completed", "processing_failed"}

\* a validator that forgets the status set
validate_message_any_status(blob_metadata_id, tenant_id, status) ==
    IF ~Truthy(blob_metadata_id) THEN Invalid("blob_metadata_id is required")
    ELSE IF ~Truthy(tenant_id) THEN Invalid("tenant_id is required")
    ELSE IF ~Truthy(status) THEN Invalid("status is required")
    ELSE Valid

validate_message(blob_metadata_id, tenant_id, status) ==
    IF ~Truthy(blob_metadata_id) THEN Invalid("blob_metadata_id is required")
    ELSE IF ~Truthy(tenant_id) THEN Invalid("tenant_id is required")
    ELSE IF ~Truthy(status) THEN Invalid("status is required")
    ELSE IF status.s \notin DocumentStatuses
         THEN Invalid("status must be one of: processing_completed, processing_failed")
    ELSE Valid

\* a message that always carries a user_id key
DocumentMessageAlwaysUser(blob_metadata_id, tenant_id, user_id, status, processed_markdown, error_message, now) ==
    DictV([type |-> Str("document_processing"),
           blob_metadata_id |-> blob_metadata_id,
           tenant_id |-> tenant_id,
           status |-> status,
           timestamp |-> Str(now),
           user_id |-> user_id]
          @@ (IF Truthy(processed_markdown)
              THEN [processed_markdown |-> processed_markdown] ELSE EmptyMap)
          @@ (IF Truthy(error_message) THEN [error_message |-> error_message] ELSE EmptyMap))

\* lines 114-128
DocumentMessage(blob_metadata_id, tenant_id, user_id, status, processed_markdown, error_message, now) ==
    DictV([type |-> Str("document_processing"),
           blob_metadata_id |-> blob_metadata_id,
           tenant_id |-> tenant_id,
           status |-> status,
           timestamp |-> Str(now)]
          @@ (IF Truthy(user_id) THEN [user_id |-> user_id] ELSE EmptyMap)
          @@ (IF Truthy(processed_markdown)
              THEN [processed_markdown |-> processed_markdown] ELSE EmptyMap)
          @@ (IF Truthy(error_message) THEN [error_message |-> error_message] ELSE EmptyMap))

\* execute without the validate_message step
DocumentOutcomeUnvalidated(a, now) ==
    LET v1 == validate_rabbitmq_url(a.rabbitmq_url, a.queue_name)
    IN  IF ~v1.ok THEN Return(ValidationFailed(v1.err))
        ELSE Send(DocumentMessage(StripOrNone(a.blob_metadata_id), StripOrNone(a.tenant_id),
                                  StripOrNone(a.user_id), StripOrNone(a.status),
                                  StripOrNone(a.processed_markdown),
                                  StripOrNone(a.error_message), now))

\* send_document_processing_status.execute up to the call of install_and_import
DocumentOutcome(a, now) ==
    LET blob_metadata_id   == StripOrNone(a.blob_metadata_id)
        tenant_id          == StripOrNone(a.tenant_id)
        user_id            == StripOrNone(a.user_id)
        status             == StripOrNone(a.status)
        processed_markdown == StripOrNone(a.processed_markdown)
        error_message      == StripOrNone(a.error_message)
        v1 == validate_rabbitmq_url(a.rabbitmq_url, a.queue_name)
        v2 == validate_message(blob_metadata_id, tenant_id, status)
    IN  IF ~v1.ok THEN Return(ValidationFailed(v1.err))
        ELSE IF ~v2.ok THEN Return(ValidationFailed(v2.err))
        ELSE Send(DocumentMessage(blob_metadata_id, tenant_id, user_id, status,
                                  processed_markdown, error_message, now))

\* json.dumps({"status": "success", "blob_metadata_id": ..., "processing_status": ..., "message": message})
DocumentSuccess(a, message) ==
    JsonDumps(DictV([status |-> Str("success"),
                     blob_metadata_id |-> StripOrNone(a.blob_metadata_id),
                     processing_status |-> StripOrNone(a.status),
                     message |-> message]))

\* ------------------------------------------------------------------------
\* Inputs of the invocations
\* ------------------------------------------------------------------------
UuidV4 == "123e4567-e89b-42d3-a456-426614174000"

UuidV4Upper == "123E4567-E89B-42D3-A456-426614174000"

UuidV1 == "123e4567-e89b-12d3-a456-426614174000"

UuidBadVariant == "123e4567-e89b-42d3-c456-426614174000"

UuidBraces == "{123e4567-e89b-42d3-a456-426614174000}"

UuidNoHyphens == "123e4567e89b42d3a456426614174000"

Urls == {None, Str(""), Str("amqp://h"), Str("amqps://h"), Str("http://h"), Str("amqp:/h")}

Queues == {None, Str(""), Str("q")}

\* the clock read by datetime.now(timezone.utc).isoformat()
Timestamps == {"2025-01-01T00:00:00+00:00"}

\* str(e) of an exception raised by pip or by the broker client
ExceptionTexts == {"connection lost"}

CompleteBase ==
    [rabbitmq_url |-> Str("amqp://h"), queue_name |-> Str("q"),
     text_content |-> Str("hi"), reasoning_content |-> None, reasoning_title |-> None,
     sources |-> None, tasks |-> None, response_group_id |-> None,
     tenant_id |-> Str("t"), message_id |-> Str("m"), conversation_id |-> Str("c"),
     turn_complete |-> None, citation_variant |-> None]

SourcesInputs ==
    {None, Str(""), Str("[]"), ListV(<<>>),
     ListV(<<SourceDoc>>), ListV(<<SourceDoc, SourceNoTitle>>), ListV(<<SourceNoUrl>>),
     ListV(<<Str("https://docs")>>), DictV([url |-> Str("https://docs")]), DictV(EmptyMap),
     Str("[{\"url\": \"https://docs\", \"title\": \"Docs\"}]"),
     Str("[{\"url\": \"https://docs\"}]"), Str("{}"), Str("[5]"), Str("[")}

TasksInputs ==
    {None, Str(""), Str("[]"), ListV(<<>>),
     ListV(<<TaskSetup>>), ListV(<<TaskOpen, TaskNoItems>>), ListV(<<TaskNoTitle>>),
     ListV(<<TaskItemsStr>>), ListV(<<TaskOpenStr>>), ListV(<<IntV(5)>>),
     Str("[{\"title\": \"Setup\", \"items\": [\"Install\"]}]"),
     Str("[{\"title\": \"Setup\"}]"), Str("null"), Str("[")}

\* calls that vary the broker address, the identifiers and the group id
CompleteRequiredInputs ==
    {[CompleteBase EXCEPT !.rabbitmq_url = u, !.queue_name = q, !.tenant_id = t,
                          !.message_id = m, !.conversation_id = c,
                          !.response_group_id = g] :
        u \in Urls, q \in Queues,
        t \in {None, Str(""), Str("t")},
        m \in {None, Str(""), Str(" m ")},
        c \in {None, Str(""), Str("c")},
        g \in {None, Str(UuidV4), Str("bad")}}

\* calls that vary the content components
CompleteContentInputs ==
    {[CompleteBase EXCEPT !.text_content = x, !.reasoning_content = r,
                          !.sources = so, !.tasks = ta] :
        x \in {None, Str("  "), Str("hi")},
        r \in {None, Str(""), Str("think")},
        so \in SourcesInputs,
        ta \in {None, Str("[]"), ListV(<<TaskSetup>>)}}
    \cup
    {[CompleteBase EXCEPT !.text_content = x, !.reasoning_content = r,
                          !.sources = so, !.tasks = ta] :
        x \in {None, Str("  "), Str("hi")},
        r \in {None, Str(""), Str("think")},
        so \in {None, Str("[]"), ListV(<<SourceDoc>>)},
        ta \in TasksInputs}

\* calls that vary the reasoning and the metadata hints
CompleteMetadataInputs ==
    {[CompleteBase EXCEPT !.reasoning_content = r, !.reasoning_title = rt,
                          !.turn_complete = tc, !.citation_variant = cv] :
        r \in {None, Str("think")},
        rt \in {None, Str(""), Str("Plan")},
        tc \in {None, Str(""), BoolV(TRUE), BoolV(FALSE), Str("TRUE"), Str("Yes"),
                Str("1"), Str("no"), Str(" true "), IntV(0)},
        cv \in {None, Str(""), Str("modal"), Str("inline"), Str("sidebar")}}

\* calls that vary the group id
CompleteGroupInputs ==
    {[CompleteBase EXCEPT !.text_content = x, !.turn_complete = tc,
                          !.response_group_id = g] :
        x \in {None, Str("hi")},
        tc \in {None, BoolV(TRUE)},
        g \in {None, Str(""), Str(UuidV4), Str(UuidV4Upper), Str(UuidV1),
               Str(UuidBadVariant), Str(UuidBraces), Str(UuidNoHyphens), Str("bad")}}

\* calls in which several checks can fail at once
CompleteOrderInputs ==
    {[CompleteBase EXCEPT !.tenant_id = t, !.sources = so, !.tasks = ta] :
        t \in {None, Str("t")},
        so \in {None, ListV(<<SourceNoUrl>>), Str("[")},
        ta \in {None, ListV(<<TaskNoTitle>>), Str("null")}}

CompleteInputs ==
    CompleteRequiredInputs \cup CompleteContentInputs \cup CompleteMetadataInputs
    \cup CompleteGroupInputs \cup CompleteOrderInputs

DataSourceBase ==
    [rabbitmq_url |-> Str("amqp://h"), queue_name |-> Str("q"),
     message_type |-> Str("sync"), connection_id |-> Str("c1"), tenant_id |-> Str("t"),
     status |-> Str("sync_started"), error_message |-> None, documents_processed |-> None,
     verification_options |-> None, verification_error |-> None]

\* calls that vary the broker address, the type, the identifiers and the status
DataSourceRequiredInputs ==
    {[DataSourceBase EXCEPT !.rabbitmq_url = u, !.queue_name = q, !.message_type = mt,
                            !.connection_id = c, !.tenant_id = t, !.status = st] :
        u \in {None, Str("amqps://h"), Str("http://h")}, q \in {None, Str("q")},
        mt \in {None, Str(""), Str("sync"), Str(" sync "), Str("verification"), Str("other")},
        c \in {None, Str("  "), Str(" c1 ")},
        t \in {None, Str(" "), Str("t")},
        st \in {None, Str(" "), Str("sync_started"), Str("sync_completed"), Str("sync_failed"),
                Str("success"), Str("failed"), Str("done")}}

\* sync calls that vary the status and the optional fields
DataSourceSyncInputs ==
    {[DataSourceBase EXCEPT !.status = st, !.error_message = em, !.documents_processed = dp,
                            !.verification_options = v[1], !.verification_error = v[2]] :
        st \in {None, Str("sync_started"), Str("sync_completed"), Str("sync_failed"),
                Str("success")},
        em \in {None, Str(""), Str(" "), Str(" disk full ")},
        dp \in {None, Str(""), IntV(0), IntV(5), IntV(0 - 1), Str("7"), Str("-3"), Str("many")},
        v \in {<<None, None>>, <<OptionsDoc, Str("denied")>>}}

\* verification calls that vary the status and the optional fields
DataSourceVerificationInputs ==
    {[DataSourceBase EXCEPT !.message_type = Str("verification"), !.status = st,
                            !.error_message = y[1], !.documents_processed = y[2],
                            !.verification_options = vo, !.verification_error = ve] :
        st \in {None, Str(""), Str("success"), Str("failed"), Str("sync_failed")},
        y \in {<<None, None>>, <<Str(" disk full "), IntV(5)>>, <<None, Str("many")>>},
        vo \in {None, Str(""), Str("{\"site\": \"main\"}"), Str("[\"main\"]"), Str("5"),
                Str("\"x\""), Str("{"), Str("{}"), OptionsDoc, ListV(<<Str("main")>>),
                DictV(EmptyMap), IntV(5)},
        ve \in {None, Str(" "), Str("denied")}}

\* calls in which the count and other inputs can be wrong at once
DataSourceOrderInputs ==
    {[DataSourceBase EXCEPT !.rabbitmq_url = u, !.message_type = mt, !.status = st,
                            !.documents_processed = dp] :
        u \in {None, Str("amqp://h")},
        mt \in {Str("sync"), Str("verification"), Str("other")},
        st \in {Str("sync_started"), Str("bogus")},
        dp \in {Str("many"), Str("7.5"), Str(" 7 ")}}

DataSourceInputs ==
    DataSourceRequiredInputs \cup DataSourceSyncInputs \cup DataSourceVerificationInputs
    \cup DataSourceOrderInputs

DocumentBase ==
    [rabbitmq_url |-> Str("amqp://h"), queue_name |-> Str("q"),
     blob_metadata_id |-> Str("b1"), tenant_id |-> Str("t"), user_id |-> None,
     status |-> Str("processing_completed"), processed_markdown |-> None,
     error_message |-> None]

\* calls that vary the broker address and the required fields
DocumentRequiredInputs ==
    {[DocumentBase EXCEPT !.rabbitmq_url = u, !.queue_name = q, !.blob_metadata_id = b,
                          !.tenant_id = t, !.status = st] :
        u \in {None, Str("amqp://h"), Str("http://h")}, q \in {None, Str("q")},
        b \in {None, Str(" "), Str(" b1 ")},
        t \in {None, Str(" "), Str("t")},
        st \in {None, Str(" "), Str(" processing_completed "), Str("processing_failed"),
                Str("processing_started")}}

\* calls that vary the optional fields
DocumentOptionalInputs ==
    {[DocumentBase EXCEPT !.status = st, !.user_id = u, !.processed_markdown = md,
                          !.error_message = em] :
        st \in {Str("processing_completed"), Str(" processing_failed ")},
        u \in {None, Str(""), Str(" u1 ")},
        md \in {None, Str(" "), Str("# Title")},
        em \in {None, Str(" "), Str("parse error")}}

DocumentInputs == DocumentRequiredInputs \cup DocumentOptionalInputs

\* ------------------------------------------------------------------------
\* State
\* ------------------------------------------------------------------------
VARIABLES
    pc,          \* "idle", a step of send_to_rabbitmq, or "returned"
    activity,    \* the activity being invoked
    args,        \* the inputs of the invocation
    message,     \* the message execute has assembled
    result,      \* the value execute has returned
    conn,        \* the invocation's connection: "none", "open", "closed"
    ops,         \* the broker operations the invocation has performed
    calls,       \* invocations started so far
    published,   \* messages the broker has accepted so far
    successes    \* results with status "success" returned so far

vars == <<pc, activity, args, message, result, conn, ops, calls, published, successes>>

Init ==
    /\ pc = "idle"
    /\ activity = "none"
    /\ args = None
    /\ message = None
    /\ result = None
    /\ conn = "none"
    /\ ops = <<>>
    /\ calls = 0
    /\ published = 0
    /\ successes = 0

\* execute returns `r` to its caller
Returns(r) ==
    /\ pc' = "returned"
    /\ result' = r
    /\ successes' = IF r.doc.d.status = Str("success") THEN successes + 1 ELSE successes

\* an invocation may start when none is running
CanCall == pc = "idle" /\ calls < MaxCalls

\* the part of execute before send_to_rabbitmq: validation, message assembly
\* and install_and_import, which may raise
Begin(name, a, outcome) ==
    /\ calls' = calls + 1
    /\ activity' = name
    /\ args' = a
    /\ conn' = "none"
    /\ ops' = <<>>
    /\ UNCHANGED published
    /\ IF outcome.returned
       THEN /\ Returns(outcome.result)
            /\ message' = None
       ELSE \/ /\ pc' = "connect"
               /\ message' = outcome.message
               /\ UNCHANGED <<result, successes>>
            \/ \E e \in ExceptionTexts :
               /\ Returns(ErrorResult(e))
               /\ message' = outcome.message

ExecuteComplete ==
    /\ CanCall
    /\ \E a \in CompleteInputs : Begin("complete", a, CompleteOutcome(a))

ExecuteDataSource ==
    /\ CanCall
    /\ \E a \in DataSourceInputs, now \in Timestamps :
        Begin("data_source", a, DataSourceOutcome(a, now))

ExecuteDocument ==
    /\ CanCall
    /\ \E a \in DocumentInputs, now \in Timestamps :
        Begin("document", a, DocumentOutcome(a, now))

\* a broker call raises and no handler catches it
RaisesUncaught ==
    /\ pc' = "raised"
    /\ UNCHANGED <<activity, args, message, result, conn, ops, calls, published, successes>>

\* a broker call raises: the `except Exception` of execute returns the error
Raises ==
    /\ \E e \in ExceptionTexts : Returns(ErrorResult(e))
    /\ UNCHANGED <<activity, args, message, conn, ops, calls, published>>

\* json.dumps({"status": "success", ...}) of the running activity
SuccessResult ==
    CASE activity = "complete"    -> CompleteSuccess(args, message)
      [] activity = "data_source" -> DataSourceSuccess(args, message)
      [] activity = "document"    -> DocumentSuccess(args, message)

\* a connect that reuses the connection of an earlier publish
ConnectReusing ==
    /\ pc = "connect"
    /\ pc' = "channel"
    /\ conn' = "open"
    /\ ops' = IF published > 0 THEN ops
              ELSE Append(ops, [op |-> "connect", url |-> args.rabbitmq_url])
    /\ UNCHANGED <<activity, args, message, result, calls, published, successes>>

\* pika.BlockingConnection(pika.URLParameters(rabbitmq_url))
Connect ==
    /\ pc = "connect"
    /\ pc' = "channel"
    /\ conn' = "open"
    /\ ops' = Append(ops, [op |-> "connect", url |-> args.rabbitmq_url])
    /\ UNCHANGED <<activity, args, message, result, calls, published, successes>>

ConnectRaises ==
    /\ pc = "connect"
    /\ Raises

\* connection.channel()
OpenChannel ==
    /\ pc = "channel"
    /\ pc' = "declare"
    /\ ops' = Append(ops, [op |-> "channel"])
    /\ UNCHANGED <<activity, args, message, result, conn, calls, published, successes>>

OpenChannelRaises ==
    /\ pc = "channel"
    /\ Raises

\* channel.queue_declare(queue=queue_name, durable=True)
QueueDeclare ==
    /\ pc = "declare"
    /\ pc' = "publish"
    /\ ops' = Append(ops, [op |-> "queue_declare", queue |-> args.queue_name, durable |-> TRUE])
    /\ UNCHANGED <<activity, args, message, result, conn, calls, published, successes>>

QueueDeclareRaises ==
    /\ pc = "declare"
    /\ Raises

\* a publish without the persistent marking
BasicPublishTransient ==
    /\ pc = "publish"
    /\ pc' = "close"
    /\ ops' = Append(ops, [op |-> "basic_publish", exchange |-> "",
                           routing_key |-> args.queue_name,
                           body |-> JsonDumps(message), delivery_mode |-> 1])
    /\ published' = published + 1
    /\ UNCHANGED <<activity, args, message, result, conn, calls, successes>>

\* channel.basic_publish(exchange='', routing_key=queue_name,
\*                       body=json.dumps(message_body), delivery_mode=2)
BasicPublish ==
    /\ pc = "publish"
    /\ pc' = "close"
    /\ ops' = Append(ops, [op |-> "basic_publish", exchange |-> "",
                           routing_key |-> args.queue_name,
                           body |-> JsonDumps(message), delivery_mode |-> 2])
    /\ published' = published + 1
    /\ UNCHANGED <<activity, args, message, result, conn, calls, successes>>

BasicPublishRaises ==
    /\ pc = "publish"
    /\ Raises

\* a close after which execute never returns
CloseWithoutReturn ==
    /\ pc = "close"
    /\ pc' = "closed"
    /\ conn' = "closed"
    /\ ops' = Append(ops, [op |-> "close"])
    /\ UNCHANGED <<activity, args, message, result, calls, published, successes>>

\* connection.close(), then execute returns the success result
Close ==
    /\ pc = "close"
    /\ conn' = "closed"
    /\ ops' = Append(ops, [op |-> "close"])
    /\ Returns(SuccessResult)
    /\ UNCHANGED <<activity, args, message, calls, published>>

CloseRaises ==
    /\ pc = "close"
    /\ Raises

\* the caller takes the result; nothing of the invocation is retained
Collect ==
    /\ pc = "returned"
    /\ pc' = "idle"
    /\ activity' = "none"
    /\ args' = None
    /\ message' = None
    /\ result' = None
    /\ conn' = "none"
    /\ ops' = <<>>
    /\ UNCHANGED <<calls, published, successes>>

Next ==
    \/ ExecuteComplete
    \/ ExecuteDataSource
    \/ ExecuteDocument
    \/ Connect
    \/ ConnectRaises
    \/ OpenChannel
    \/ OpenChannelRaises
    \/ QueueDeclare
    \/ QueueDeclareRaises
    \/ BasicPublish
    \/ BasicPublishRaises
    \/ Close
    \/ CloseRaises
    \/ Collect

Spec == Init /\ [][Next]_vars

\* a broker call in progress either returns or raises
BrokerCall ==
    \/ Connect \/ ConnectRaises
    \/ OpenChannel \/ OpenChannelRaises
    \/ QueueDeclare \/ QueueDeclareRaises
    \/ BasicPublish \/ BasicPublishRaises
    \/ Close \/ CloseRaises

LiveSpec == Init /\ [][Next]_vars /\ WF_vars(BrokerCall)

\* ------------------------------------------------------------------------
\* Vocabulary of the properties
\* ------------------------------------------------------------------------
BrokerSteps == {"connect", "channel", "declare", "publish", "close"}

Returned == pc = "returned"

ReturnedError == Returned /\ result.doc.d.status = Str("error")

ReturnedSuccess == Returned /\ result.doc.d.status = Str("success")

\* the text of an error result
ErrorText == result.doc.d.error.s

OpsOfKind(kind) == {i \in 1..Len(ops) : ops[i].op = kind}

\* ------------------------------------------------------------------------
\* C1: no failure escapes execute. An invocation never ends in a propagated
\* exception, and an invocation that has returned without completing all of
\* connect, channel, queue_declare, basic_publish and close (a validation
\* failure, a failed install, or a broker call that raised) has returned a
\* result with status "error" that carries an error text.
\* ------------------------------------------------------------------------
CompletedSend == Len(ops) = 5 /\ ops[5].op = "close"

C1_NoFailureEscapes ==
    /\ pc \in {"idle", "returned"} \cup BrokerSteps
    /\ (Returned /\ ~CompletedSend) =>
          /\ result.doc.d.status = Str("error")
          /\ "error" \in DOMAIN result.doc.d
          /\ result.doc.d.error.t = "str"

\* connection.close() raised after the publish, and execute returned an error
C1_Witness ==
    /\ ReturnedError
    /\ Len(ops) = 4
    /\ ops[4].op = "basic_publish"

\* ------------------------------------------------------------------------
\* C2: an invocation publishes at most one message; an invocation that
\* returns success has published exactly one; and whenever no invocation is
\* running, the number of published messages equals the number of success
\* results.
\* ------------------------------------------------------------------------
C2_PublishedEqualsSuccesses ==
    /\ Cardinality(OpsOfKind("basic_publish")) <= 1
    /\ ReturnedSuccess => Cardinality(OpsOfKind("basic_publish")) = 1
    /\ pc \in {"idle", "returned"} => published = successes

\* ------------------------------------------------------------------------
\* C3: an invocation that returns status "error" has neither declared the
\* queue nor published a message.
\* ------------------------------------------------------------------------
C3_ErrorLeavesNothing ==
    ReturnedError =>
        /\ OpsOfKind("queue_declare") = {}
        /\ OpsOfKind("basic_publish") = {}

\* ------------------------------------------------------------------------
\* C4: validation precedes broker interaction. Every invocation either has
\* returned an error without connecting, declaring or publishing, or has
\* inputs that pass every validation step of its activity: when a step fails
\* the invocation returns its error without touching the broker, and the
\* broker is touched only after every step has passed.
\* ------------------------------------------------------------------------
CompleteValidationPasses(a) ==
    /\ validate_response_group_id(OrNone(a.response_group_id)).ok
    /\ validate_rabbitmq_url(a.rabbitmq_url, a.queue_name).ok
    /\ validate_parameters(a.tenant_id, a.message_id, a.conversation_id,
                           OrNone(a.sources), OrNone(a.tasks)).ok
    /\ HasContent(IF Truthy(a.text_content) THEN a.text_content ELSE Str(""),
                  OrNone(a.reasoning_content), OrNone(a.sources), OrNone(a.tasks))

DataSourceValidationPasses(a) ==
    LET supplied == a.documents_processed /= None /\ a.documents_processed /= Str("")
        docs     == IF supplied THEN IntV(ParseInt(a.documents_processed).n) ELSE None
        mt       == StripOrNone(a.message_type)
        st       == StripOrNone(a.status)
        auto     == IF Truthy(st) THEN st
                    ELSE IF Truthy(StripOrNone(a.verification_error))
                         THEN Str("failed") ELSE Str("success")
    IN  /\ supplied => ParseInt(a.documents_processed).ok
        /\ validate_rabbitmq_url(a.rabbitmq_url, a.queue_name).ok
        /\ mt \in {Str("sync"), Str("verification")}
        /\ mt = Str("sync") =>
              validate_sync_message(StripOrNone(a.connection_id), StripOrNone(a.tenant_id),
                                    st, StripOrNone(a.error_message), docs).ok
        /\ mt = Str("verification") =>
              validate_verification_message(StripOrNone(a.connection_id),
                                            StripOrNone(a.tenant_id), auto,
                                            OrNone(a.verification_options),
                                            StripOrNone(a.verification_error)).ok

DocumentValidationPasses(a) ==
    /\ validate_rabbitmq_url(a.rabbitmq_url, a.queue_name).ok
    /\ validate_message(StripOrNone(a.blob_metadata_id), StripOrNone(a.tenant_id),
                        StripOrNone(a.status)).ok

ValidationPasses ==
    CASE activity = "complete"    -> CompleteValidationPasses(args)
      [] activity = "data_source" -> DataSourceValidationPasses(args)
      [] activity = "document"    -> DocumentValidationPasses(args)

\* the invocation has returned an error without any broker call
RejectedBeforeBroker == ReturnedError /\ ops = <<>> /\ conn = "none"

C4_ValidationBeforeBroker ==
    activity /= "none" => (RejectedBeforeBroker \/ ValidationPasses)

\* a data-source call failed validation and returned without any broker call
C4_Witness ==
    /\ activity = "data_source"
    /\ ~ValidationPasses
    /\ ReturnedError
    /\ ops = <<>>

\* ------------------------------------------------------------------------
\* C5: no invocation returns while a connection it opened is still open.
\* ------------------------------------------------------------------------
C5_ConnectionClosedOnReturn == Returned => conn /= "open"

\* ------------------------------------------------------------------------
\* C6: a successful send has performed exactly: connect, channel,
\* queue_declare(queue_name, durable), basic_publish(default exchange,
\* routing key queue_name, delivery_mode 2), close, in this order; and in
\* every state each publish is preceded, in the same invocation, by a durable
\* declare of the queue it is routed to, and is marked persistent.
\* ------------------------------------------------------------------------
C6_BrokerOrder ==
    /\ ReturnedSuccess =>
          /\ Len(ops) = 5
          /\ ops[1].op = "connect" /\ ops[1].url = args.rabbitmq_url
          /\ ops[2].op = "channel"
          /\ ops[3] = [op |-> "queue_declare", queue |-> args.queue_name, durable |-> TRUE]
          /\ ops[4].op = "basic_publish"
          /\ ops[5].op = "close"
          /\ conn = "closed"
    /\ \A i \in OpsOfKind("basic_publish") :
          /\ ops[i].exchange = ""
          /\ ops[i].routing_key = args.queue_name
          /\ ops[i].delivery_mode = 2
          /\ \E j \in 1..(i - 1) :
                /\ ops[j].op = "queue_declare"
                /\ ops[j].queue = ops[i].routing_key
                /\ ops[j].durable

\* a document-processing call was sent and returned success
C6_Witness ==
    /\ ReturnedSuccess
    /\ activity = "document"
    /\ OpsOfKind("basic_publish") = {4}

\* ------------------------------------------------------------------------
\* C7: every returned result is a JSON object whose status is "success" or
\* "error"; a success result carries the assembled message under "message",
\* an error result carries a text under "error" and has no "message" key.
\* ------------------------------------------------------------------------
C7_ResultShape ==
    Returned =>
        /\ result.t = "json"
        /\ result.doc.t = "dict"
        /\ "status" \in DOMAIN result.doc.d
        /\ result.doc.d.status \in {Str("success"), Str("error")}
        /\ result.doc.d.status = Str("success") =>
              /\ "message" \in DOMAIN result.doc.d
              /\ result.doc.d.message = message
              /\ message.t = "dict"
        /\ result.doc.d.status = Str("error") =>
              /\ "error" \in DOMAIN result.doc.d
              /\ result.doc.d.error.t = "str"
              /\ "message" \notin DOMAIN result.doc.d

\* a data-source call returned success with its message
C7_Witness ==
    /\ ReturnedSuccess
    /\ activity = "data_source"
    /\ result.doc.d.message.d.type = Str("verification")

\* ------------------------------------------------------------------------
\* C8: every published complete message carries real content (a response
\* that is not blank, a reasoning, a non-empty sources list or a non-empty
\* tasks list), and a call that supplies none of these, with sources and
\* tasks given as lists or as JSON strings, is rejected with the 'at least
\* one of ...' error and publishes nothing.
\* ------------------------------------------------------------------------
NoContentError ==
    "Validation failed: at least one of text_content, reasoning_content, sources, or tasks is required"

MessageHasContent(m) ==
    \/ Strip(m.d.response.s) /= ""
    \/ /\ "metadata" \in DOMAIN m.d
       /\ \/ "reasoning" \in DOMAIN m.d.metadata.d
          \/ /\ "sources" \in DOMAIN m.d.metadata.d
             /\ m.d.metadata.d.sources /= ListV(<<>>)
          \/ /\ "tasks" \in DOMAIN m.d.metadata.d
             /\ m.d.metadata.d.tasks /= ListV(<<>>)

\* v is absent, empty, or a JSON string that denotes the empty list
NoItems(v) == ~Truthy(v) \/ (IsStr(v) /\ JsonLoads(v.s) = [ok |-> TRUE, val |-> ListV(<<>>)])

NoContentSupplied(a) ==
    /\ ~Truthy(a.text_content) \/ Strip(a.text_content.s) = ""
    /\ ~Truthy(a.reasoning_content)
    /\ NoItems(a.sources)
    /\ NoItems(a.tasks)

C8_RealContent ==
    activity = "complete" =>
        /\ \A i \in OpsOfKind("basic_publish") : MessageHasContent(ops[i].body.doc)
        /\ NoContentSupplied(args) =>
              /\ ReturnedError
              /\ ops = <<>>
              /\ ( /\ validate_response_group_id(OrNone(args.response_group_id)).ok
                   /\ validate_rabbitmq_url(args.rabbitmq_url, args.queue_name).ok
                   /\ validate_parameters(args.tenant_id, args.message_id, args.conversation_id,
                                          OrNone(args.sources), OrNone(args.tasks)).ok )
                 => ErrorText = NoContentError

\* ------------------------------------------------------------------------
\* C9 (as stated): a complete-message call in which rabbitmq_url, queue_name,
\* tenant_id, message_id or conversation_id is None or empty returns an error
\* '<field> is required' naming such a field and publishes nothing, and every
\* published complete message has non-empty message_id, conversation_id and
\* tenant_id.
\* ------------------------------------------------------------------------
RequiredFields == <<"rabbitmq_url", "queue_name", "tenant_id", "message_id", "conversation_id">>

MissingFields(a) == {i \in 1..5 : ~Truthy(a[RequiredFields[i]])}

RequiredError(i) == "Validation failed: " \o RequiredFields[i] \o " is required"

PublishedIdsNonEmpty ==
    \A i \in OpsOfKind("basic_publish") :
        /\ Truthy(ops[i].body.doc.d.message_id)
        /\ Truthy(ops[i].body.doc.d.conversation_id)
        /\ Truthy(ops[i].body.doc.d.tenant_id)

C9_RequiredFieldNamed ==
    activity = "complete" =>
        /\ PublishedIdsNonEmpty
        /\ MissingFields(args) /= {} =>
              /\ ReturnedError
              /\ ops = <<>>
              /\ \E i \in MissingFields(args) : ErrorText = RequiredError(i)

\* ------------------------------------------------------------------------
\* C9 (amended): such a call always returns an error and publishes nothing;
\* the error is '<field> is required' for the first missing field, in the
\* order rabbitmq_url, queue_name, tenant_id, message_id, conversation_id,
\* unless a check that runs earlier fails: response_group_id is not a valid
\* UUID v4, or rabbitmq_url and queue_name are present and the URL has
\* another scheme. Every published complete message has non-empty
\* message_id, conversation_id and tenant_id.
\* ------------------------------------------------------------------------
FirstMissing(a) == CHOOSE i \in MissingFields(a) : \A j \in MissingFields(a) : i <= j

EarlierCheckFails(a) ==
    \/ ~validate_response_group_id(OrNone(a.response_group_id)).ok
    \/ /\ Truthy(a.rabbitmq_url)
       /\ Truthy(a.queue_name)
       /\ ~validate_rabbitmq_url(a.rabbitmq_url, a.queue_name).ok

C9_FirstMissingFieldNamed ==
    activity = "complete" =>
        /\ PublishedIdsNonEmpty
        /\ MissingFields(args) /= {} =>
              /\ ReturnedError
              /\ ops = <<>>
              /\ ~EarlierCheckFails(args) => ErrorText = RequiredError(FirstMissing(args))

\* message_id is missing, the checks before it pass, and the error names it
C9_Witness ==
    /\ activity = "complete"
    /\ MissingFields(args) = {4}
    /\ ~EarlierCheckFails(args)
    /\ ReturnedError
    /\ ErrorText = "Validation failed: message_id is required"

\* ------------------------------------------------------------------------
\* C10: in every activity validate_rabbitmq_url accepts exactly a non-empty
\* rabbitmq_url that starts with 'amqp://' or 'amqps://' together with a
\* non-empty queue_name; every other call returns an error, builds no message
\* and performs no broker operation.
\* ------------------------------------------------------------------------
UrlAccepted(u, q) ==
    /\ u.t = "str" /\ u.s /= ""
    /\ \/ Len(u.s) >= 7 /\ SubSeq(u.s, 1, 7) = "amqp://"
       \/ Len(u.s) >= 8 /\ SubSeq(u.s, 1, 8) = "amqps://"
    /\ q.t = "str" /\ q.s /= ""

C10_UrlValidation ==
    activity /= "none" =>
        /\ validate_rabbitmq_url(args.rabbitmq_url, args.queue_name).ok
              <=> UrlAccepted(args.rabbitmq_url, args.queue_name)
        /\ ~UrlAccepted(args.rabbitmq_url, args.queue_name) =>
              /\ ReturnedError
              /\ message = None
              /\ ops = <<>>

\* a document-processing call with an http:// URL was rejected
C10_Witness ==
    /\ activity = "document"
    /\ args.rabbitmq_url = Str("http://h")
    /\ args.queue_name = Str("q")
    /\ ReturnedError
    /\ ErrorText = "Validation failed: rabbitmq_url must start with 'amqp://' or 'amqps://'"

\* ------------------------------------------------------------------------
\* C11: a complete message carries a response_group_id key only when the
\* supplied value is a UUID version 4 in the canonical 8-4-4-4-12 hyphenated
\* form (hexadecimal letters of either case), and then the key holds the
\* supplied value unchanged; every other non-empty value is rejected with
\* 'response_group_id must be a valid UUID v4' and no broker call; an absent
\* or empty value gives a message without the key.
\* ------------------------------------------------------------------------
GroupIdError == "Validation failed: response_group_id must be a valid UUID v4"

CharAt(s, i) == Lower(SubSeq(s, i, i))

IsCanonicalUuid4(v) ==
    /\ v.t = "str"
    /\ Len(v.s) = 36
    /\ \A i \in 1..36 :
          IF i \in {9, 14, 19, 24}
          THEN CharAt(v.s, i) = "-"
          ELSE CharAt(v.s, i) \in {"0", "1", "2", "3", "4", "5", "6", "7", "8", "9",
                                    "a", "b", "c", "d", "e", "f"}
    /\ CharAt(v.s, 15) = "4"
    /\ CharAt(v.s, 20) \in {"8", "9", "a", "b"}

C11_GroupIdIsUuid4 ==
    activity = "complete" =>
        /\ message /= None =>
              IF "response_group_id" \in DOMAIN message.d
              THEN /\ IsCanonicalUuid4(args.response_group_id)
                   /\ message.d.response_group_id = args.response_group_id
              ELSE ~Truthy(args.response_group_id)
        /\ \A i \in OpsOfKind("basic_publish") : ops[i].body.doc = message
        /\ (Truthy(args.response_group_id) /\ ~IsCanonicalUuid4(args.response_group_id)) =>
              /\ ReturnedError
              /\ ErrorText = GroupIdError
              /\ message = None
              /\ ops = <<>>

\* an upper-case UUID v4 was published as supplied
C11_Witness ==
    /\ activity = "complete"
    /\ args.response_group_id = Str(UuidV4Upper)
    /\ \E i \in OpsOfKind("basic_publish") :
          ops[i].body.doc.d.response_group_id = Str(UuidV4Upper)

\* ------------------------------------------------------------------------
\* C12 (as stated): every published complete message whose metadata carries
\* sources carries a list whose every element is an object with a url and a
\* title key; a sources input that (decoded when it is a JSON string) is
\* not a list, or has an element that is not an object or lacks url or
\* title, is rejected without any broker call, and the error says that
\* sources is not a list, or names the index of the first offending element
\* and the field it lacks.
\* ------------------------------------------------------------------------
SourceOk(e) == e.t = "dict" /\ {"url", "title"} \subseteq DOMAIN e.d

PublishedSourcesWellFormed ==
    \A i \in OpsOfKind("basic_publish") :
        LET m == ops[i].body.doc.d
        IN  ("metadata" \in DOMAIN m /\ "sources" \in DOMAIN m.metadata.d) =>
                /\ m.metadata.d.sources.t = "list"
                /\ \A k \in 1..Len(m.metadata.d.sources.v) : SourceOk(m.metadata.d.sources.v[k])

\* the decoded input is not a list or has an offending element
SourcesOffending(v) ==
    /\ Truthy(v)
    /\ LET parsed == LoadsIfStr(v)
       IN  \/ ~parsed.ok
           \/ parsed.val.t /= "list"
           \/ \E k \in 1..Len(parsed.val.v) : ~SourceOk(parsed.val.v[k])

\* the error a rejected sources input is said to get
SourcesErrorNamed(v) ==
    LET parsed == LoadsIfStr(v)
    IN  IF ~parsed.ok
        THEN "Validation failed: sources JSON parsing error: " \o JsonErrorText
        ELSE IF parsed.val.t /= "list" THEN "Validation failed: sources must be a list"
        ELSE LET l == parsed.val.v
                 k == CHOOSE j \in 1..Len(l) :
                         ~SourceOk(l[j]) /\ \A h \in 1..(j - 1) : SourceOk(l[h])
                 at == "Validation failed: sources[" \o ToString(k - 1) \o "]"
             IN  IF l[k].t /= "dict" THEN at \o " must be an object"
                 ELSE IF "url" \notin DOMAIN l[k].d
                      THEN at \o " missing required field 'url'"
                      ELSE at \o " missing required field 'title'"

C12_SourcesRejected ==
    activity = "complete" =>
        /\ PublishedSourcesWellFormed
        /\ SourcesOffending(args.sources) =>
              /\ ReturnedError
              /\ ops = <<>>
              /\ ErrorText = SourcesErrorNamed(args.sources)

\* ------------------------------------------------------------------------
\* C12 (amended): the published sources are well formed as above, and a
\* non-empty sources input that is not a list or has an offending element is
\* always rejected without any broker call; the error is the one described
\* above unless a check that runs earlier fails (the group id, the broker
\* address, or a missing tenant_id, message_id or conversation_id), whose
\* error is then returned instead.
\* ------------------------------------------------------------------------
ChecksBeforeSourcesPass(a) ==
    /\ validate_response_group_id(OrNone(a.response_group_id)).ok
    /\ validate_rabbitmq_url(a.rabbitmq_url, a.queue_name).ok
    /\ Truthy(a.tenant_id) /\ Truthy(a.message_id) /\ Truthy(a.conversation_id)

C12_SourcesRejectedInOrder ==
    activity = "complete" =>
        /\ PublishedSourcesWellFormed
        /\ SourcesOffending(args.sources) =>
              /\ ReturnedError
              /\ ops = <<>>
              /\ message = None
              /\ ChecksBeforeSourcesPass(args) => ErrorText = SourcesErrorNamed(args.sources)

\* the second source lacks its title, and the error names index 1 and title
C12_Witness ==
    /\ activity = "complete"
    /\ args.sources = ListV(<<SourceDoc, SourceNoTitle>>)
    /\ ReturnedError
    /\ ErrorText = "Validation failed: sources[1] missing required field 'title'"

\* ------------------------------------------------------------------------
\* C13 (as stated): every published complete message whose metadata carries
\* tasks carries a list whose every element is an object with a title, an
\* items key holding a list and, when defaultOpen is present, a boolean
\* defaultOpen; a tasks input that (decoded when it is a JSON string)
\* violates any of these is rejected without any broker call, and the error
\* says that tasks is not a list, or names the index of the first offending
\* element and the field at fault.
\* ------------------------------------------------------------------------
TaskOk(e) ==
    /\ e.t = "dict"
    /\ {"title", "items"} \subseteq DOMAIN e.d
    /\ e.d.items.t = "list"
    /\ "defaultOpen" \in DOMAIN e.d => e.d.defaultOpen \in {BoolV(TRUE), BoolV(FALSE)}

PublishedTasksWellFormed ==
    \A i \in OpsOfKind("basic_publish") :
        LET m == ops[i].body.doc.d
        IN  ("metadata" \in DOMAIN m /\ "tasks" \in DOMAIN m.metadata.d) =>
                /\ m.metadata.d.tasks.t = "list"
                /\ \A k \in 1..Len(m.metadata.d.tasks.v) : TaskOk(m.metadata.d.tasks.v[k])

TasksOffending(v) ==
    /\ Truthy(v)
    /\ LET parsed == LoadsIfStr(v)
       IN  \/ ~parsed.ok
           \/ parsed.val.t /= "list"
           \/ \E k \in 1..Len(parsed.val.v) : ~TaskOk(parsed.val.v[k])

\* the error a rejected tasks input is said to get
TasksErrorNamed(v) ==
    LET parsed == LoadsIfStr(v)
    IN  IF ~parsed.ok
        THEN "Validation failed: tasks JSON parsing error: " \o JsonErrorText
        ELSE IF parsed.val.t /= "list" THEN "Validation failed: tasks must be a list"
        ELSE LET l == parsed.val.v
                 k == CHOOSE j \in 1..Len(l) :
                         ~TaskOk(l[j]) /\ \A h \in 1..(j - 1) : TaskOk(l[h])
                 at == "Validation failed: tasks[" \o ToString(k - 1) \o "]"
             IN  IF l[k].t /= "dict" THEN at \o " must be an object"
                 ELSE IF "title" \notin DOMAIN l[k].d
                      THEN at \o " missing required field 'title'"
                 ELSE IF "items" \notin DOMAIN l[k].d
                      THEN at \o " missing required field 'items'"
                 ELSE IF l[k].d.items.t /= "list" THEN at \o ".items must be a list"
                 ELSE at \o ".defaultOpen must be a boolean"

C13_TasksRejected ==
    activity = "complete" =>
        /\ PublishedTasksWellFormed
        /\ TasksOffending(args.tasks) =>
              /\ ReturnedError
              /\ ops = <<>>
              /\ ErrorText = TasksErrorNamed(args.tasks)

\* ------------------------------------------------------------------------
\* C13 (amended): the published tasks are well formed as above, and a
\* non-empty tasks input that violates the rules is always rejected without
\* any broker call; the error is the one described above unless a check
\* that runs earlier fails (the group id, the broker address, a missing
\* tenant_id, message_id or conversation_id, or the sources), whose error
\* is then returned instead.
\* ------------------------------------------------------------------------
C13_TasksRejectedInOrder ==
    activity = "complete" =>
        /\ PublishedTasksWellFormed
        /\ TasksOffending(args.tasks) =>
              /\ ReturnedError
              /\ ops = <<>>
              /\ message = None
              /\ (ChecksBeforeSourcesPass(args) /\ ~SourcesOffending(args.sources))
                     => ErrorText = TasksErrorNamed(args.tasks)

\* the second task lacks its items, and the error names index 1 and items
C13_Witness ==
    /\ activity = "complete"
    /\ args.tasks = ListV(<<TaskOpen, TaskNoItems>>)
    /\ ReturnedError
    /\ ErrorText = "Validation failed: tasks[1] missing required field 'items'"

\* ------------------------------------------------------------------------
\* C14: a published complete message has a metadata key if and only if at
\* least one of reasoning_content, sources, tasks, citation_variant was
\* supplied non-empty or turn_complete was supplied as anything but None
\* and ''; a message sent with text only has no metadata key; and a
\* published metadata object is never empty and holds only the keys
\* reasoning, sources, tasks, turn_complete, citation_variant.
\* ------------------------------------------------------------------------
MetadataKeys == {"reasoning", "sources", "tasks", "turn_complete", "citation_variant"}

Provided(v) == Truthy(v)

TurnCompleteProvided(a) == a.turn_complete /= None /\ a.turn_complete /= Str("")

AnyMetadataProvided(a) ==
    \/ Provided(a.reasoning_content)
    \/ Provided(a.sources)
    \/ Provided(a.tasks)
    \/ TurnCompleteProvided(a)
    \/ Provided(a.citation_variant)

C14_MetadataIffProvided ==
    activity = "complete" =>
        \A i \in OpsOfKind("basic_publish") :
            LET m == ops[i].body.doc.d
            IN  /\ "metadata" \in DOMAIN m <=> AnyMetadataProvided(args)
                /\ "metadata" \in DOMAIN m =>
                      /\ m.metadata.t = "dict"
                      /\ DOMAIN m.metadata.d /= {}
                      /\ DOMAIN m.metadata.d \subseteq MetadataKeys

\* a text-only message was published without a metadata key
C14_Witness ==
    /\ activity = "complete"
    /\ ~AnyMetadataProvided(args)
    /\ \E i \in OpsOfKind("basic_publish") :
          DOMAIN ops[i].body.doc.d = {"message_id", "conversation_id", "tenant_id", "response"}

\* ------------------------------------------------------------------------
\* C15: metadata.turn_complete is in a published complete message if and
\* only if the turn_complete input is neither None nor ''; when present it
\* is a boolean; a boolean input is kept as it is, false included; a string
\* input gives true exactly when it equals 'true', '1' or 'yes' up to
\* letter case, and false otherwise.
\* ------------------------------------------------------------------------
EqualsIgnoringCase(s, w) ==
    /\ Len(s) = Len(w)
    /\ \A i \in 1..Len(w) : LowerChar(SubSeq(s, i, i)) = SubSeq(w, i, i)

SaysTrue(s) == \E w \in {"true", "1", "yes"} : EqualsIgnoringCase(s, w)

C15_TurnComplete ==
    activity = "complete" =>
        \A i \in OpsOfKind("basic_publish") :
            LET m   == ops[i].body.doc.d
                has == "metadata" \in DOMAIN m /\ "turn_complete" \in DOMAIN m.metadata.d
            IN  /\ has <=> (args.turn_complete /= None /\ args.turn_complete /= Str(""))
                /\ has =>
                      /\ m.metadata.d.turn_complete \in {BoolV(TRUE), BoolV(FALSE)}
                      /\ args.turn_complete.t = "bool" =>
                            m.metadata.d.turn_complete = args.turn_complete
                      /\ args.turn_complete.t = "str" =>
                            m.metadata.d.turn_complete = BoolV(SaysTrue(args.turn_complete.s))

\* 'Yes' was published as true
C15_Witness ==
    /\ activity = "complete"
    /\ args.turn_complete = Str("Yes")
    /\ \E i \in OpsOfKind("basic_publish") :
          ops[i].body.doc.d.metadata.d.turn_complete = BoolV(TRUE)

\* ------------------------------------------------------------------------
\* C16: metadata.reasoning is in a published complete message if and only
\* if reasoning_content is non-empty; its content is the input, its state
\* is 'done', and it has a title key, holding reasoning_title, exactly when
\* reasoning_title is non-empty; a reasoning_title supplied without
\* reasoning_content appears nowhere in the message.
\* ------------------------------------------------------------------------
MessageKeys ==
    {"message_id", "conversation_id", "tenant_id", "response", "metadata", "response_group_id"}

C16_Reasoning ==
    activity = "complete" =>
        \A i \in OpsOfKind("basic_publish") :
            LET m   == ops[i].body.doc.d
                has == "metadata" \in DOMAIN m /\ "reasoning" \in DOMAIN m.metadata.d
            IN  /\ has <=> (args.reasoning_content \notin {None, Str("")})
                /\ has =>
                      LET r == m.metadata.d.reasoning.d
                      IN  /\ r.content = args.reasoning_content
                          /\ r.state = Str("done")
                          /\ "title" \in DOMAIN r <=> (args.reasoning_title \notin {None, Str("")})
                          /\ "title" \in DOMAIN r => r.title = args.reasoning_title
                          /\ DOMAIN r \subseteq {"content", "state", "title"}
                /\ DOMAIN m \subseteq MessageKeys
                /\ "metadata" \in DOMAIN m => DOMAIN m.metadata.d \subseteq MetadataKeys

\* a title was supplied without content, and the published message has no reasoning
C16_Witness ==
    /\ activity = "complete"
    /\ args.reasoning_title = Str("Plan")
    /\ args.reasoning_content = None
    /\ args.citation_variant = Str("modal")
    /\ \E i \in OpsOfKind("basic_publish") :
          "reasoning" \notin DOMAIN ops[i].body.doc.d.metadata.d

\* ------------------------------------------------------------------------
\* C17: when a complete-message call returns success, the JSON document it
\* published is the message returned in the result; the message's
\* message_id, conversation_id and tenant_id are the inputs unchanged; and
\* its response is text_content, or '' when text_content was absent.
\* ------------------------------------------------------------------------
C17_PublishedIsReturned ==
    (activity = "complete" /\ ReturnedSuccess) =>
        /\ OpsOfKind("basic_publish") /= {}
        /\ \A i \in OpsOfKind("basic_publish") :
              /\ ops[i].body.t = "json"
              /\ ops[i].body.doc = result.doc.d.message
        /\ LET m == result.doc.d.message.d
           IN  /\ m.message_id = args.message_id
               /\ m.conversation_id = args.conversation_id
               /\ m.tenant_id = args.tenant_id
               /\ m.response = IF args.text_content \in {None, Str("")}
                                THEN Str("") ELSE args.text_content

\* a call without text returned a message with an empty response
C17_Witness ==
    /\ activity = "complete"
    /\ ReturnedSuccess
    /\ args.text_content = None
    /\ result.doc.d.message.d.response = Str("")
    /\ ops[4].body.doc = result.doc.d.message

\* ------------------------------------------------------------------------
\* C18: every published complete message that carries
\* metadata.citation_variant carries one of the five documented values.
\* ------------------------------------------------------------------------
CitationVariants == {"hover-card", "modal", "right-panel", "collapsible-list", "inline"}

C18_CitationVariantDocumented ==
    activity = "complete" =>
        \A i \in OpsOfKind("basic_publish") :
            LET m == ops[i].body.doc.d
            IN  ("metadata" \in DOMAIN m /\ "citation_variant" \in DOMAIN m.metadata.d) =>
                    /\ m.metadata.d.citation_variant.t = "str"
                    /\ m.metadata.d.citation_variant.s \in CitationVariants

\* ------------------------------------------------------------------------
\* C19: every published data-source message is of type 'sync' with status
\* sync_started, sync_completed or sync_failed, or of type 'verification'
\* with status success or failed, and has non-empty connection_id and
\* tenant_id; a call whose message_type is neither 'sync' nor
\* 'verification', whose supplied status is outside the set of its type, or
\* whose connection_id or tenant_id is missing, empty or whitespace-only,
\* returns an error and performs no broker operation.
\* ------------------------------------------------------------------------
Blank(v) == v = None \/ (v.t = "str" /\ Strip(v.s) = "")

StatusesOf(type) ==
    CASE type = "sync"         -> {"sync_started", "sync_completed", "sync_failed"}
      [] type = "verification" -> {"success", "failed"}
      [] OTHER                 -> {}

NonEmptyText(v) == v.t = "str" /\ v.s /= "" /\ Strip(v.s) /= ""

DataSourceMessageWellTyped(m) ==
    /\ m.type \in {Str("sync"), Str("verification")}
    /\ m.status.t = "str"
    /\ m.status.s \in StatusesOf(m.type.s)
    /\ NonEmptyText(m.connection_id)
    /\ NonEmptyText(m.tenant_id)

DataSourceOffending(a) ==
    \/ Blank(a.message_type)
    \/ Strip(a.message_type.s) \notin {"sync", "verification"}
    \/ ~Blank(a.status) /\ Strip(a.status.s) \notin StatusesOf(Strip(a.message_type.s))
    \/ Blank(a.connection_id)
    \/ Blank(a.tenant_id)

C19_DataSourceTyped ==
    activity = "data_source" =>
        /\ \A i \in OpsOfKind("basic_publish") : DataSourceMessageWellTyped(ops[i].body.doc.d)
        /\ DataSourceOffending(args) =>
              /\ ReturnedError
              /\ message = None
              /\ ops = <<>>

\* a verification call with a sync status was rejected
C19_Witness ==
    /\ activity = "data_source"
    /\ args.message_type = Str("verification")
    /\ args.status = Str("sync_failed")
    /\ ReturnedError
    /\ ErrorText = "Validation failed: status must be one of: success, failed"
    /\ ops = <<>>

\* ------------------------------------------------------------------------
\* C20 (as stated): a published sync message has exactly the keys type,
\* connection_id, tenant_id, status and timestamp, plus error_message if
\* and only if a non-empty error_message was supplied, plus
\* documents_processed if and only if documents_processed was supplied (a
\* supplied 0 included); the verification inputs appear nowhere in it.
\* ------------------------------------------------------------------------
SyncBaseKeys == {"type", "connection_id", "tenant_id", "status", "timestamp"}

DocumentsProcessedSupplied(a) == a.documents_processed \notin {None, Str("")}

VerificationInputsAbsent(m, a) ==
    \A k \in DOMAIN m :
        /\ a.verification_options /= None => m[k] /= a.verification_options
        /\ a.verification_error /= None => m[k] /= a.verification_error

C20_SyncKeys ==
    activity = "data_source" =>
        \A i \in OpsOfKind("basic_publish") :
            LET m == ops[i].body.doc.d
            IN  m.type = Str("sync") =>
                    /\ DOMAIN m =
                          SyncBaseKeys
                          \cup (IF args.error_message \notin {None, Str("")}
                                THEN {"error_message"} ELSE {})
                          \cup (IF DocumentsProcessedSupplied(args)
                                THEN {"documents_processed"} ELSE {})
                    /\ VerificationInputsAbsent(m, args)

\* ------------------------------------------------------------------------
\* C20 (amended): as above, except that error_message is in the message if
\* and only if the supplied error_message is non-empty after stripping
\* whitespace, and the message then holds the stripped text.
\* ------------------------------------------------------------------------
C20_SyncKeysStripped ==
    activity = "data_source" =>
        \A i \in OpsOfKind("basic_publish") :
            LET m == ops[i].body.doc.d
            IN  m.type = Str("sync") =>
                    /\ DOMAIN m =
                          SyncBaseKeys
                          \cup (IF ~Blank(args.error_message) THEN {"error_message"} ELSE {})
                          \cup (IF DocumentsProcessedSupplied(args)
                                THEN {"documents_processed"} ELSE {})
                    /\ "error_message" \in DOMAIN m =>
                          m.error_message = Str(Strip(args.error_message.s))
                    /\ VerificationInputsAbsent(m, args)

\* a sync message with a zero count was published by a call that also
\* supplied verification inputs
C20_Witness ==
    /\ activity = "data_source"
    /\ args.documents_processed = IntV(0)
    /\ args.verification_error = Str("denied")
    /\ \E i \in OpsOfKind("basic_publish") :
          /\ ops[i].body.doc.d.type = Str("sync")
          /\ ops[i].body.doc.d.documents_processed = IntV(0)

\* ------------------------------------------------------------------------
\* C21: a published verification message has exactly the keys type,
\* connection_id, tenant_id, status, options and error; options and error
\* are null when the corresponding input was not supplied; there is no
\* timestamp; and the sync inputs (error_message, documents_processed)
\* appear nowhere in it.
\* ------------------------------------------------------------------------
VerificationKeys == {"type", "connection_id", "tenant_id", "status", "options", "error"}

SyncInputsAbsent(m, a) ==
    \A k \in DOMAIN m :
        /\ a.error_message /= None =>
              m[k] \notin {a.error_message, Str(Strip(a.error_message.s))}
        /\ m[k].t /= "int"

C21_VerificationKeys ==
    activity = "data_source" =>
        \A i \in OpsOfKind("basic_publish") :
            LET m == ops[i].body.doc.d
            IN  m.type = Str("verification") =>
                    /\ DOMAIN m = VerificationKeys
                    /\ "timestamp" \notin DOMAIN m
                    /\ args.verification_options \in {None, Str("")} => m.options = None
                    /\ args.verification_error \in {None, Str("")} => m.error = None
                    /\ SyncInputsAbsent(m, args)

\* a verification message with null options and error was published by a
\* call that also supplied the sync inputs
C21_Witness ==
    /\ activity = "data_source"
    /\ args.error_message = Str(" disk full ")
    /\ args.documents_processed = IntV(5)
    /\ \E i \in OpsOfKind("basic_publish") :
          /\ ops[i].body.doc.d.type = Str("verification")
          /\ ops[i].body.doc.d.options = None
          /\ ops[i].body.doc.d.error = None

\* ------------------------------------------------------------------------
\* C22: a verification message is published only when verification_options
\* is absent (None or empty) or denotes a JSON object or array, as a JSON
\* string or already parsed, and the published options is then null,
\* respectively the parsed value; a verification call whose
\* verification_options is not valid JSON or denotes a scalar returns an
\* error and performs no broker operation.
\* ------------------------------------------------------------------------
OptionsAbsent(v) == v \in {None, Str(""), ListV(<<>>), DictV(EmptyMap)}

OptionsDenoteContainer(v) ==
    /\ ~OptionsAbsent(v)
    /\ IF v.t = "str"
       THEN JsonLoads(v.s).ok /\ JsonLoads(v.s).val.t \in {"dict", "list"}
       ELSE v.t \in {"dict", "list"}

OptionsValue(v) == IF v.t = "str" THEN JsonLoads(v.s).val ELSE v

IsIntegerText(s) ==
    LET b    == Strip(s)
        body == IF b /= "" /\ SubSeq(b, 1, 1) \in {"+", "-"} THEN SubSeq(b, 2, Len(b)) ELSE b
    IN  /\ body /= ""
        /\ \A i \in 1..Len(body) :
              SubSeq(body, i, i) \in {"0", "1", "2", "3", "4", "5", "6", "7", "8", "9"}

NotConvertible(v) == v.t = "str" /\ v.s /= "" /\ ~IsIntegerText(v.s)

C23_DocumentsProcessedInteger ==
    (activity = "data_source" /\ NotConvertible(args.documents_processed)) =>
        /\ ReturnedError
        /\ ErrorText = "documents_processed must be a valid integer"
        /\ message = None
        /\ ops = <<>>

\* a verification call without a broker address and with the count 'many'
\* got the integer error
C23_Witness ==
    /\ activity = "data_source"
    /\ args.documents_processed = Str("many")
    /\ args.rabbitmq_url = None
    /\ args.message_type = Str("verification")
    /\ ReturnedError
    /\ ErrorText = "documents_processed must be a valid integer"

\* ------------------------------------------------------------------------
\* C24: a document-processing call publishes only when blob_metadata_id,
\* tenant_id and status are non-empty after whitespace stripping and the
\* stripped status is 'processing_completed' or 'processing_failed'; every
\* other call returns an error and performs no broker operation.
\* ------------------------------------------------------------------------
DocumentFieldsOk(a) ==
    /\ ~Blank(a.blob_metadata_id)
    /\ ~Blank(a.tenant_id)
    /\ ~Blank(a.status)
    /\ Strip(a.status.s) \in {"processing_completed", "processing_failed"}

C24_DocumentValidated ==
    activity = "document" =>
        /\ OpsOfKind("basic_publish") /= {} => DocumentFieldsOk(args)
        /\ ~DocumentFieldsOk(args) =>
              /\ ReturnedError
              /\ message = None
              /\ ops = <<>>

\* a call with another status was rejected
C24_Witness ==
    /\ activity = "document"
    /\ args.status = Str("processing_started")
    /\ args.rabbitmq_url = Str("amqp://h")
    /\ ~Blank(args.blob_metadata_id)
    /\ ~Blank(args.tenant_id)
    /\ ReturnedError
    /\ ErrorText = "Validation failed: status must be one of: processing_completed, processing_failed"

\* ------------------------------------------------------------------------
\* C25: every published document-processing message has type
\* 'document_processing', holds the stripped blob_metadata_id, tenant_id and
\* status and a timestamp, holds the stripped user_id, processed_markdown
\* and error_message each if and only if that input is non-empty after
\* stripping, and has no other key; a call without user_id whose required
\* inputs are valid is not rejected.
\* ------------------------------------------------------------------------
DocumentBaseKeys == {"type", "blob_metadata_id", "tenant_id", "status", "timestamp"}

DocumentOptionalKeys == {"user_id", "processed_markdown", "error_message"}

Stripped(v) == Str(Strip(v.s))

C25_DocumentMessage ==
    activity = "document" =>
        /\ \A i \in OpsOfKind("basic_publish") :
              LET m == ops[i].body.doc.d
              IN  /\ m.type = Str("document_processing")
                  /\ m.blob_metadata_id = Stripped(args.blob_metadata_id)
                  /\ m.tenant_id = Stripped(args.tenant_id)
                  /\ m.status = Stripped(args.status)
                  /\ m.timestamp.t = "str" /\ m.timestamp.s \in Timestamps
                  /\ DOMAIN m = DocumentBaseKeys
                                  \cup {k \in DocumentOptionalKeys : ~Blank(args[k])}
                  /\ \A k \in DocumentOptionalKeys \cap DOMAIN m : m[k] = Stripped(args[k])
        /\ ( /\ Blank(args.user_id)
             /\ DocumentFieldsOk(args)
             /\ UrlAccepted(args.rabbitmq_url, args.queue_name) ) =>
              /\ message /= None
              /\ ReturnedError => ErrorText \in ExceptionTexts

\* a call without user_id returned success
C25_Witness ==
    /\ activity = "document"
    /\ args.user_id = None
    /\ args.processed_markdown = Str("# Title")
    /\ ReturnedSuccess
    /\ DOMAIN result.doc.d.message.d = DocumentBaseKeys \cup {"processed_markdown"}

\* ------------------------------------------------------------------------
\* C26: invocations are independent. Whatever ran before, the message an
\* invocation assembles, the broker operations it performs and the result
\* it returns are those its own inputs, the clock and the broker's
\* responses determine: the message and a validation error are functions
\* of the inputs, the operations are a prefix of connect, channel,
\* queue_declare, basic_publish, close on the invocation's own connection,
\* and the result is success exactly when all five were performed. Between
\* invocations nothing of an invocation is retained.
\* ------------------------------------------------------------------------
OutcomeOf(name, a, now) ==
    CASE name = "complete"    -> CompleteOutcome(a)
      [] name = "data_source" -> DataSourceOutcome(a, now)
      [] name = "document"    -> DocumentOutcome(a, now)

OpsOf(a, m) ==
    << [op |-> "connect", url |-> a.rabbitmq_url],
       [op |-> "channel"],
       [op |-> "queue_declare", queue |-> a.queue_name, durable |-> TRUE],
       [op |-> "basic_publish", exchange |-> "", routing_key |-> a.queue_name,
        body |-> JsonDumps(m), delivery_mode |-> 2],
       [op |-> "close"] >>

ConnOf(n) == IF n = 0 THEN "none" ELSE IF n = 5 THEN "closed" ELSE "open"

Running == pc \in BrokerSteps

ReturnsOnce ==
    /\ result' /= result => (pc /= "returned" /\ pc' = "returned") \/ (pc = "returned" /\ pc' = "idle")
    /\ pc = "returned" => (pc' = "idle" /\ published' = published /\ ops' = <<>>)

C27_Terminates == (Running ~> Returned) /\ [][ReturnsOnce]_vars

\* the publish raised and the invocation returned its error
C27_Witness ==
    /\ ReturnedError
    /\ Len(ops) = 3
    /\ ops[3].op = "queue_declare"
    /\ conn = "open"

\* ------------------------------------------------------------------------
\* C28: in every published verification message a non-null error implies
\* status 'failed', whether the caller left status empty or supplied one.
\* ------------------------------------------------------------------------
C28_ErrorImpliesFailed ==
    activity = "data_source" =>
        \A i \in OpsOfKind("basic_publish") :
            LET m == ops[i].body.doc.d
            IN  (m.type = Str("verification") /\ m.error /= None) => m.status = Str("failed")

\* ------------------------------------------------------------------------
\* C29: every published sync message that carries documents_processed
\* carries an integer greater than or equal to 0, for every sync status.
\* ------------------------------------------------------------------------
C29_NonNegativeCount ==
    activity = "data_source" =>
        \A i \in OpsOfKind("basic_publish") :
            LET m == ops[i].body.doc.d
            IN  (m.type = Str("sync") /\ "documents_processed" \in DOMAIN m) =>
                    /\ m.documents_processed.t = "int"
                    /\ m.documents_processed.n >= 0

\* ------------------------------------------------------------------------
\* C30 (as stated): for a verification call whose status is absent or empty
\* after stripping, the published status is 'failed' when verification_error
\* is non-empty and 'success' otherwise; a status the caller supplied is
\* published as supplied (stripped), never replaced by the derivation.
\* ------------------------------------------------------------------------
StatusPublished(m, a, errorGiven) ==
    IF Blank(a.status)
    THEN m.status = IF errorGiven THEN Str("failed") ELSE Str("success")
    ELSE m.status = Stripped(a.status)

C30_StatusDerived ==
    activity = "data_source" =>
        \A i \in OpsOfKind("basic_publish") :
            LET m == ops[i].body.doc.d
            IN  m.type = Str("verification") =>
                    StatusPublished(m, args, args.verification_error \notin {None, Str("")})

\* ------------------------------------------------------------------------
\* C30 (amended): as above, with 'failed' derived exactly when
\* verification_error is non-empty after stripping whitespace; a
\* whitespace-only verification_error gives 'success'.
\* ------------------------------------------------------------------------
C30_StatusDerivedStripped ==
    activity = "data_source" =>
        \A i \in OpsOfKind("basic_publish") :
            LET m == ops[i].body.doc.d
            IN  m.type = Str("verification") =>
                    StatusPublished(m, args, ~Blank(args.verification_error))

\* a call without status and with an error was published as failed
C30_Witness ==
    /\ activity = "data_source"
    /\ args.message_type = Str("verification")
    /\ args.status = None
    /\ args.verification_error = Str("denied")
    /\ \E i \in OpsOfKind("basic_publish") : ops[i].body.doc.d.status = Str("failed")

====
